---- MODULE Spec2Model ----
(***************************************************************************)
(* Model of the paper ingestion-and-enrichment pipeline:                   *)
(*   arxiv_collector.py  (fetch_papers)                                    *)
(*   database.py         (PaperDatabase: the papers table and its queries) *)
(*   paper_processor.py  (PaperProcessor: batching, LLM call, parsing)     *)
(*   main.py             (run_collection, run_processing,                  *)
(*                        send_weekly_digest, run_scheduled_tasks)         *)
(*   email_digest.py     (EmailDigest: generate_digest, send_digest)       *)
(*   app.py              (the reads of the dashboard)                      *)
(*                                                                         *)
(* Conventions.                                                            *)
(*  - A nullable value is a sequence of length <= 1: None is <<>> (SQL     *)
(*    NULL, Python None) and Some(v) is <<v>>.                             *)
(*  - The column `processed` holds the integers 0 and 1 (Python's False    *)
(*    and True are the integers 0 and 1; sqlite3 stores them as such).     *)
(*  - A day is an integer; `published` is the day of the 'YYYY-MM-DD'      *)
(*    string and date('now', '-N days') is now - N.                        *)
(*  - The descriptive columns title, authors, summary, updated,            *)
(*    arxiv_categories, pdf_url and abstract_url are all written by the    *)
(*    same two statements and are represented by `title`.                  *)
(*  - A JSON text is a sequence of tokens <<kind, value>>; a string        *)
(*    literal "c" is the token <<"str", c>>.                               *)
(***************************************************************************)
EXTENDS Integers, Sequences, FiniteSets, TLC

VARIABLES
    store,             \* the papers table, rows in insertion order (database.py)
    now,               \* the current day
    pc,                \* position of the processing run (main.py run_processing)
    papers,            \* the list run_processing read; its dicts are updated in place
    batch_size,        \* PaperProcessor.batch_size
    i,                 \* loop index of process_papers
    k,                 \* position of _process_batch in the current batch
    processed_batch,   \* result list of _process_batch
    processed_papers,  \* result list of process_papers
    delays,            \* time.sleep calls of the current process_papers call
    batches,           \* sizes of the batches the current call has taken
    llm_calls,         \* _call_llm calls of the current call: paper id and outcome
    runs,              \* collection and processing runs started so far
    last_call,         \* the last observed call of an entry point, with what it did
    service            \* the scheduled service (main.py run_scheduled_tasks)

vars == <<store, now, pc, papers, batch_size, i, k, processed_batch,
          processed_papers, delays, batches, llm_calls, runs, last_call, service>>

(* ------------------------------ bounds --------------------------------- *)

\* the clock runs over the days 0..MaxNow
MaxNow == 2
\* number of collection and processing runs that are started
MaxRuns == 3
\* length of the input list of the batching specification
MaxPapers == 5
\* largest configured batch size
MaxBatchSize == 3
\* number of calls of entry points that are observed on a store
MaxCalls == 2
\* largest limit of the processing runs that are repeated
MaxLimit == 2

\* external identifiers known to the paper index
IDS == {1, 2}
\* versions of a paper's descriptive data in the paper index
TITLES == {"v1", "v2"}
\* look-back windows passed to the reads
DAYS == {1, 2}

(* ------------------------------ values --------------------------------- *)

None == <<>>
Some(v) == <<v>>

\* attack-category strings that occur in responses and in requests
CATEGORIES == {"jailbreak", "Jailbreak", "prompt injection", "unclassified"}

\* ASCII case folding, as the LIKE operator of SQLite applies it
Lower(c) == IF c = "Jailbreak" THEN "jailbreak" ELSE c

\* the publication day the index reports for an identifier (result.published)
IndexPublished(id) == 2 * (id - 1)

COLUMNS == {"id", "title", "published", "brief_overview",
            "technical_explanation", "attack_categories", "relevance_score",
            "processed", "processed_at", "processing_error"}

\* column defaults of CREATE TABLE papers
ColumnDefault(c) == IF c = "processed" THEN 0 ELSE None

(* ------------------------------- JSON ---------------------------------- *)

RECURSIVE JsonElems(_)
JsonElems(list) ==
    IF list = <<>> THEN <<>>
    ELSE IF Len(list) = 1 THEN << <<"str", list[1]>> >>
    ELSE << <<"str", list[1]>>, <<",", "">> >> \o JsonElems(Tail(list))

\* json.dumps of a list of strings: ["a", "b"]
JsonDumps(list) == << <<"[", "">> >> \o JsonElems(list) \o << <<"]", "">> >>

\* the elements of a token sequence  str (, str)*  ; Some(list), or None when malformed
RECURSIVE JsonParseElems(_)
JsonParseElems(toks) ==
    IF toks = <<>> THEN None
    ELSE IF toks[1][1] # "str" THEN None
    ELSE IF Len(toks) = 1 THEN Some(<<toks[1][2]>>)
    ELSE IF toks[2][1] # "," THEN None
    ELSE LET rest == JsonParseElems(SubSeq(toks, 3, Len(toks)))
         IN  IF rest = None THEN None ELSE Some(<<toks[1][2]>> \o rest[1])

\* json.loads of a column text: Some(list), or None for a JSONDecodeError
JsonLoads(text) ==
    IF Len(text) < 2 \/ text[1][1] # "[" \/ text[Len(text)][1] # "]" THEN None
    ELSE IF Len(text) = 2 THEN Some(<<>>)
    ELSE JsonParseElems(SubSeq(text, 2, Len(text) - 1))

(* ------------------------------ the store ------------------------------ *)

\* the conversion loop of save_papers: list fields become JSON strings
ToSql(paper) ==
    [c \in DOMAIN paper |->
        IF c = "attack_categories" /\ paper[c] # None
        THEN Some(JsonDumps(paper[c][1]))
        ELSE paper[c]]

\* the conversion loop of the reads: JSON strings become lists again
FromSql(row) ==
    [c \in DOMAIN row |->
        IF c = "attack_categories" /\ row[c] # None /\ row[c][1] # <<>>
        THEN LET v == JsonLoads(row[c][1])
             IN  IF v = None THEN Some(<<>>) ELSE v
        ELSE row[c]]

\* the existence check of save_papers finding no row
RowExistsNever(table, id) == FALSE

\* SELECT id FROM papers WHERE id = ?
RowExists(table, id) == \E n \in 1..Len(table) : table[n]["id"] = id

\* UPDATE papers SET <every supplied key but id> WHERE id = ?
UpdateRow(table, data) ==
    [n \in 1..Len(table) |->
        IF table[n]["id"] = data["id"]
        THEN [c \in COLUMNS |->
                 IF c \in DOMAIN data /\ c # "id" THEN data[c] ELSE table[n][c]]
        ELSE table[n]]

\* INSERT INTO papers (<supplied keys>) VALUES (...)
InsertRow(table, data) ==
    Append(table, [c \in COLUMNS |->
                      IF c \in DOMAIN data THEN data[c] ELSE ColumnDefault(c)])

\* one iteration of the loop of save_papers
SaveOne(table, paper) ==
    LET paper_data == ToSql(paper)
    IN  IF RowExists(table, paper["id"])
        THEN UpdateRow(table, paper_data)
        ELSE InsertRow(table, paper_data)

\* columns declared NOT NULL without a default
NOT_NULL == {"title", "published"}

\* cursor.execute raises sqlite3.IntegrityError: an INSERT that supplies no
\* value for a NOT NULL column (an UPDATE leaves the columns it is not given)
ExecuteFails(table, data) ==
    /\ ~RowExists(table, data["id"])
    /\ \E c \in NOT_NULL : c \notin DOMAIN data

\* the loop of save_papers on one connection: the statements of the open
\* transaction, up to the first one that raises
RECURSIVE SaveLoop(_, _)
SaveLoop(table, list) ==
    IF list = <<>> THEN [raised |-> FALSE, table |-> table]
    ELSE IF ExecuteFails(table, ToSql(Head(list)))
         THEN [raised |-> TRUE, table |-> table]
         ELSE SaveLoop(SaveOne(table, Head(list)), Tail(list))

\* save_papers raises: the exception of cursor.execute is not caught
SaveRaises(table, list) == SaveLoop(table, list).raised

\* save_papers: the table after the call. The only commit follows the loop;
\* an exception leaves the loop before it and the connection is dropped with
\* its transaction open, which rolls the transaction back.
SavePapers(table, list) ==
    IF SaveLoop(table, list).raised THEN table ELSE SaveLoop(table, list).table

\* ORDER BY published DESC
RECURSIVE InsertByPublished(_, _)
InsertByPublished(sorted, row) ==
    IF sorted = <<>> THEN <<row>>
    ELSE IF row["published"] > Head(sorted)["published"] THEN <<row>> \o sorted
    ELSE <<Head(sorted)>> \o InsertByPublished(Tail(sorted), row)

RECURSIVE OrderByPublishedDesc(_)
OrderByPublishedDesc(rows) ==
    IF rows = <<>> THEN <<>>
    ELSE InsertByPublished(OrderByPublishedDesc(SubSeq(rows, 1, Len(rows) - 1)),
                           rows[Len(rows)])

\* the loop that turns the fetched rows into dicts
Rows(rows) == [n \in 1..Len(rows) |-> FromSql(rows[n])]

\* get_unprocessed_papers that leaves out the rows with a processing_error
GetUnprocessedPapersSkipsFailed(table, limit) ==
    LET Raw(r) == r["processed"] = 0 /\ r["processing_error"] = None
        rows   == OrderByPublishedDesc(SelectSeq(table, Raw))
        n      == IF limit # None /\ limit[1] > 0 /\ limit[1] < Len(rows)
                  THEN limit[1] ELSE Len(rows)
    IN  Rows(SubSeq(rows, 1, n))

\* get_unprocessed_papers(limit); limit is None or Some(integer)
GetUnprocessedPapers(table, limit) ==
    LET Raw(r) == r["processed"] = 0
        rows   == OrderByPublishedDesc(SelectSeq(table, Raw))
        \* `if limit:` adds the LIMIT clause for a non-zero limit only, and
        \* SQLite reads a negative LIMIT as no limit
        n      == IF limit # None /\ limit[1] > 0 /\ limit[1] < Len(rows)
                  THEN limit[1] ELSE Len(rows)
    IN  Rows(SubSeq(rows, 1, n))

\* attack_categories LIKE '%"category"%': the pattern is found in the JSON
\* text where a string literal equals the category up to ASCII case (the
\* categories of the model hold no quote and no LIKE wildcard)
Like(text, category) ==
    \E n \in 1..Len(text) :
        text[n][1] = "str" /\ Lower(text[n][2]) = Lower(category)

\* get_papers_by_category without `processed = 1` in the WHERE clause
GetPapersByCategoryAnyState(table, today, category, days) ==
    LET Match(r) == /\ r["attack_categories"] # None
                    /\ Like(r["attack_categories"][1], category)
                    /\ (days # None /\ days[1] # 0) => r["published"] >= today - days[1]
    IN  Rows(OrderByPublishedDesc(SelectSeq(table, Match)))

\* get_papers_by_category(category, days); days is None or Some(integer)
GetPapersByCategory(table, today, category, days) ==
    LET Match(r) == /\ r["processed"] = 1
                    /\ r["attack_categories"] # None
                    /\ Like(r["attack_categories"][1], category)
                    /\ (days # None /\ days[1] # 0) => r["published"] >= today - days[1]
    IN  Rows(OrderByPublishedDesc(SelectSeq(table, Match)))

\* get_recent_papers with an exclusive lower bound on the score
GetRecentPapersStrict(table, today, days, min_relevance) ==
    LET Match(r) == /\ r["processed"] = 1
                    /\ r["published"] >= today - days
                    /\ min_relevance # None =>
                          /\ r["relevance_score"] # None
                          /\ r["relevance_score"][1] > min_relevance[1]
    IN  Rows(OrderByPublishedDesc(SelectSeq(table, Match)))

\* get_recent_papers(days, min_relevance); min_relevance is None or Some(integer)
GetRecentPapers(table, today, days, min_relevance) ==
    LET Match(r) == /\ r["processed"] = 1
                    /\ r["published"] >= today - days
                    /\ min_relevance # None =>
                          /\ r["relevance_score"] # None
                          /\ r["relevance_score"][1] >= min_relevance[1]
    IN  Rows(OrderByPublishedDesc(SelectSeq(table, Match)))

\* the category strings in the order of sorted(): by code point
CATEGORY_ORDER == <<"Jailbreak", "jailbreak", "prompt injection", "unclassified">>

\* sorted(list(categories)) for a set of category strings
Sorted(categories) == LET In(c) == c \in categories IN SelectSeq(CATEGORY_ORDER, In)

\* the strings get_all_categories adds for one fetched attack_categories value
RowCategories(value) ==
    IF value = None \/ value[1] = <<>> THEN {}
    ELSE LET cats == JsonLoads(value[1])
         IN  IF cats = None THEN {} ELSE {cats[1][n] : n \in 1..Len(cats[1])}

\* get_all_categories that reads the rows of every state
GetAllCategoriesAnyState(table) ==
    Sorted(UNION {RowCategories(table[n]["attack_categories"]) : n \in 1..Len(table)})

\* get_all_categories
GetAllCategories(table) ==
    LET Done(r) == r["processed"] = 1
        rows    == SelectSeq(table, Done)
    IN  Sorted(UNION {RowCategories(rows[n]["attack_categories"]) : n \in 1..Len(rows)})

\* the look-back window of the recent_papers count of get_stats, in days
STATS_DAYS == 7

\* get_stats that counts every row as processed
GetStatsCountsAll(table, today) ==
    LET Each(r)   == TRUE
        Done(r)   == r["processed"] = 1
        Recent(r) == r["published"] >= today - STATS_DAYS
        scores    == {table[n]["relevance_score"] :
                         n \in {q \in 1..Len(table) : Done(table[q])}}
    IN  [total_papers |-> Len(SelectSeq(table, Each)),
         processed_papers |-> Len(SelectSeq(table, Each)),
         papers_by_relevance |->
            [s \in scores |->
                LET Scored(r) == Done(r) /\ r["relevance_score"] = s
                IN  Len(SelectSeq(table, Scored))],
         recent_papers |-> Len(SelectSeq(table, Recent))]

\* get_stats; SELECT COUNT(*) ... WHERE <cond> is the length of the selection
GetStats(table, today) ==
    LET Each(r)   == TRUE
        Done(r)   == r["processed"] = 1
        Recent(r) == r["published"] >= today - STATS_DAYS
        scores    == {table[n]["relevance_score"] :
                         n \in {q \in 1..Len(table) : Done(table[q])}}
    IN  [total_papers |-> Len(SelectSeq(table, Each)),
         processed_papers |-> Len(SelectSeq(table, Done)),
         papers_by_relevance |->
            [s \in scores |->
                LET Scored(r) == Done(r) /\ r["relevance_score"] = s
                IN  Len(SelectSeq(table, Scored))],
         recent_papers |-> Len(SelectSeq(table, Recent))]

(* --------------------------- the collector ----------------------------- *)

\* a dict that resets `processed` and leaves out `processed_at`
CollectedPaperKeepsProcessedAt(id, title) ==
    [id |-> id, title |-> title, published |-> IndexPublished(id), processed |-> 0]

\* the dict fetch_papers builds for one search result
CollectedPaper(id, title) ==
    [id |-> id, title |-> title, published |-> IndexPublished(id),
     processed |-> 0, processed_at |-> None]

\* lists of distinct identifiers the index can return on day `today`
ResultIds(today) ==
    LET avail == {id \in IDS : IndexPublished(id) <= today}
    IN  {<<>>} \cup {<<a>> : a \in avail}
        \cup {s \in avail \X avail : s[1] # s[2]}

\* what the paper index does during the loop of fetch_papers: it yields the
\* results `ids` with the data `title`, and then either ends the iteration
\* or raises (its retries are used up)
IndexOutcomes(today) ==
    UNION {{[ids |-> ids, title |-> t, raised |-> f] :
               t \in [1..Len(ids) -> TITLES], f \in BOOLEAN} : ids \in ResultIds(today)}

\* a fetch_papers that catches the exception and returns what it has built
FetchPapersKeepsPartial(index) ==
    [raised |-> FALSE,
     papers |-> [n \in 1..Len(index.ids) |->
                    CollectedPaper(index.ids[n], index.title[n])]]

\* fetch_papers: the list is returned when the iteration ends; an exception
\* of the iteration is not caught and the list built so far is dropped
FetchPapers(index) ==
    [raised |-> index.raised,
     papers |-> IF index.raised THEN <<>>
                ELSE [n \in 1..Len(index.ids) |->
                         CollectedPaper(index.ids[n], index.title[n])]]

(* ------------------------ the enrichment engine ------------------------ *)

\* members of a JSON object in a response, as  "key": value  tokens
MEMBERS == {"bo1", "te1", "bo2", "te2", "catJP", "catJcap", "catEmpty", "catPU",
            "rs9", "rs7", "rs11", "rs3"}

MemberKey(m) ==
    CASE m \in {"bo1", "bo2"} -> "brief_overview"
      [] m \in {"te1", "te2"} -> "technical_explanation"
      [] m \in {"catJP", "catJcap", "catEmpty", "catPU"} -> "categories"
      [] OTHER -> "relevance_score"

MemberValue(m) ==
    CASE m = "bo1" -> Some("overview 1")
      [] m = "bo2" -> Some("overview 2")
      [] m = "te1" -> Some("explanation 1")
      [] m = "te2" -> Some("explanation 2")
      [] m = "catJP" -> Some(<<"jailbreak", "prompt injection">>)
      [] m = "catJcap" -> Some(<<"Jailbreak">>)
      [] m = "catEmpty" -> Some(<<>>)
      [] m = "catPU" -> Some(<<"prompt injection", "unclassified">>)
      [] m = "rs3" -> Some(3)
      [] m = "rs9" -> Some(9)
      [] m = "rs7" -> Some(7)
      [] OTHER -> Some(11)

REQUIRED_KEYS == {"brief_overview", "technical_explanation", "categories",
                  "relevance_score"}

\* str.find and str.rfind: 0-based index, -1 when absent
Find(text, ch) ==
    IF \E n \in 1..Len(text) : text[n] = ch
    THEN (CHOOSE n \in 1..Len(text) :
             text[n] = ch /\ \A m \in 1..(n - 1) : text[m] # ch) - 1
    ELSE -1

RFind(text, ch) ==
    IF \E n \in 1..Len(text) : text[n] = ch
    THEN (CHOOSE n \in 1..Len(text) :
             text[n] = ch /\ \A m \in (n + 1)..Len(text) : text[m] # ch) - 1
    ELSE -1

\* text[a:b] for 0 <= a, 0 <= b
Slice(text, a, b) ==
    LET e == IF b < Len(text) THEN b ELSE Len(text)
    IN  IF a >= e THEN <<>> ELSE SubSeq(text, a + 1, e)

\* json.loads of the extracted span: the dict, or a JSONDecodeError
JsonLoadsObject(json_str) ==
    LET n == Len(json_str)
    IN  IF /\ n >= 2
           /\ json_str[1] = "{"
           /\ json_str[n] = "}"
           /\ \A m \in 2..(n - 1) : json_str[m] \in MEMBERS
        THEN LET keys == {MemberKey(json_str[m]) : m \in 2..(n - 1)}
                 Last(key) == CHOOSE m \in 2..(n - 1) :
                                 /\ MemberKey(json_str[m]) = key
                                 /\ \A q \in (m + 1)..(n - 1) :
                                       MemberKey(json_str[q]) # key
             IN  [raised |-> FALSE, error |-> "",
                  result |-> [key \in keys |-> MemberValue(json_str[Last(key)])]]
        ELSE [raised |-> TRUE, error |-> "Expecting value", result |-> <<>>]

\* _parse_response
ParseResponse(response) ==
    LET start_idx == Find(response, "{")
        end_idx   == RFind(response, "}") + 1
    IN  IF start_idx >= 0 /\ end_idx > 0
        THEN JsonLoadsObject(Slice(response, start_idx, end_idx))
        ELSE [raised |-> TRUE, error |-> "No JSON found in response",
              result |-> <<>>]

\* dict.get(key, default)
Get(dict, key, default) == IF key \in DOMAIN dict THEN dict[key] ELSE default

\* dict.update(other)
Update(dict, other) ==
    [c \in DOMAIN dict \cup DOMAIN other |->
        IF c \in DOMAIN other THEN other[c] ELSE dict[c]]

\* an except branch that also resets the enrichment fields
OnErrorResets(paper, error) ==
    Update(paper, [processing_error |-> Some(error), brief_overview |-> None,
                   technical_explanation |-> None, attack_categories |-> None,
                   relevance_score |-> None])

\* an except branch that only logs the error
OnErrorKeepsRecord(paper, error) == paper

\* the except branch of _process_batch
OnError(paper, error) == Update(paper, [processing_error |-> Some(error)])

\* a try block that reads the key 'category' instead of 'categories'
TryEnrichWrongKey(paper, llm, today) ==
    IF llm.raised THEN OnError(paper, llm.error)
    ELSE LET parsed == ParseResponse(llm.text)
         IN  IF parsed.raised THEN OnError(paper, parsed.error)
             ELSE Update(paper,
                    [brief_overview |->
                        Get(parsed.result, "brief_overview", Some("Not provided")),
                     technical_explanation |->
                        Get(parsed.result, "technical_explanation", Some("Not provided")),
                     attack_categories |->
                        Get(parsed.result, "category", Some(<<"unclassified">>)),
                     relevance_score |->
                        Get(parsed.result, "relevance_score", Some(0)),
                     processed |-> 1,
                     processed_at |-> Some(today)])

\* a try block that treats a missing key as a failure of the record
TryEnrichRequiresKeys(paper, llm, today) ==
    IF llm.raised THEN OnError(paper, llm.error)
    ELSE LET parsed == ParseResponse(llm.text)
         IN  IF parsed.raised THEN OnError(paper, parsed.error)
             ELSE IF ~(REQUIRED_KEYS \subseteq DOMAIN parsed.result)
             THEN OnError(paper, "Missing required fields")
             ELSE Update(paper,
                    [brief_overview |-> parsed.result["brief_overview"],
                     technical_explanation |-> parsed.result["technical_explanation"],
                     attack_categories |-> parsed.result["categories"],
                     relevance_score |-> parsed.result["relevance_score"],
                     processed |-> 1,
                     processed_at |-> Some(today)])

\* the try block of _process_batch for one paper; llm is the outcome of _call_llm
TryEnrich(paper, llm, today) ==
    IF llm.raised THEN OnError(paper, llm.error)
    ELSE LET parsed == ParseResponse(llm.text)
         IN  IF parsed.raised THEN OnError(paper, parsed.error)
             ELSE Update(paper,
                    [brief_overview |->
                        Get(parsed.result, "brief_overview", Some("Not provided")),
                     technical_explanation |->
                        Get(parsed.result, "technical_explanation", Some("Not provided")),
                     attack_categories |->
                        Get(parsed.result, "categories", Some(<<"unclassified">>)),
                     relevance_score |->
                        Get(parsed.result, "relevance_score", Some(0)),
                     processed |-> 1,
                     processed_at |-> Some(today)])

\* a loop body that returns no record for a paper whose enrichment failed
ProcessOneDropsFailed(batch, paper, llm, today) ==
    IF TryEnrich(paper, llm, today)["processed"] = 1
    THEN Append(batch, TryEnrich(paper, llm, today))
    ELSE batch

\* one pass of the loop body of _process_batch for an unprocessed paper:
\* the paper, updated or marked as failed, is appended to the batch result
ProcessOne(batch, paper, llm, today) ==
    Append(batch, TryEnrich(paper, llm, today))

\* a sleep after every batch that reaches the end of the list exactly
SleepNeededAfterLast(index, size, total) == index + size <= total

\* `if i + self.batch_size < len(papers)`: a sleep follows the batch
SleepNeeded(index, size, total) == index + size < total

\* `if paper.get('processed', False)`
AlreadyProcessed(paper) == Get(paper, "processed", 0) # 0

\* texts the text-generation service can answer with
FULL_JP_9     == <<"x", "{", "bo1", "te1", "catJP", "rs9", "}", "x">>
FULL_JCAP_7   == <<"{", "bo2", "te2", "catJcap", "rs7", "}">>
FULL_EMPTY_11 == <<"{", "bo1", "te1", "catEmpty", "rs11", "}">>
FULL_PU_3     == <<"{", "bo2", "te1", "catPU", "rs3", "}">>
ONLY_OVERVIEW == <<"{", "bo2", "}">>
EMPTY_OBJECT  == <<"{", "}">>
NO_CLOSE      == <<"x", "{", "bo1">>
NO_OPEN       == <<"rs9", "}">>
CLOSE_FIRST   == <<"}", "x", "{">>
INVALID_JSON  == <<"{", "x", "}">>

RESPONSES == {FULL_JP_9, FULL_JCAP_7, FULL_EMPTY_11, FULL_PU_3, ONLY_OVERVIEW,
              EMPTY_OBJECT, NO_CLOSE, NO_OPEN, CLOSE_FIRST, INVALID_JSON}

LlmText(text) == [raised |-> FALSE, text |-> text, error |-> ""]
LlmError == [raised |-> TRUE, text |-> <<>>, error |-> "Connection error."]

\* outcomes of _call_llm: a response text, or an exception of the client
LLM_OUTCOMES == {LlmText(r) : r \in RESPONSES} \cup {LlmError}

(* ------------------------ the callers of the reads --------------------- *)

\* MIN_RELEVANCE_SCORE of config.py
MIN_RELEVANCE_SCORE == 5

\* generate_digest: the papers of the digest
DigestPapers(table, today, days, min_relevance) ==
    LET m == IF min_relevance = None \/ min_relevance[1] = 0
             THEN Some(MIN_RELEVANCE_SCORE) ELSE min_relevance
    IN  GetRecentPapers(table, today, days, m)

\* main of app.py: the papers of the dashboard; selected_category is None for
\* "All Categories". The list comprehension compares the score with `>=`,
\* which raises a TypeError for a score of None.
DashboardPapers(table, today, selected_category, days, min_relevance) ==
    IF selected_category = None
    THEN [raised |-> FALSE,
          papers |-> GetRecentPapers(table, today, days, Some(min_relevance))]
    ELSE LET found == GetPapersByCategory(table, today, selected_category[1], Some(days))
             Keep(paper) == Get(paper, "relevance_score", Some(0))[1] >= min_relevance
         IN  IF \E n \in 1..Len(found) : found[n]["relevance_score"] = None
             THEN [raised |-> TRUE, papers |-> <<>>]
             ELSE [raised |-> FALSE, papers |-> SelectSeq(found, Keep)]

(* ----------------------- the entry points of main ---------------------- *)

\* run_collection on the committed table: the value it returns and the table
\* it leaves. `except Exception` turns an exception of fetch_papers or of
\* save_papers into the return value [].
RunCollectionCall(table, index) ==
    LET fetched == FetchPapers(index)
    IN  IF fetched.raised \/ SaveRaises(table, fetched.papers)
        THEN [raised |-> FALSE, returned |-> <<>>,
              table |-> IF fetched.raised THEN table
                        ELSE SavePapers(table, fetched.papers)]
        ELSE [raised |-> FALSE, returned |-> fetched.papers,
              table |-> SavePapers(table, fetched.papers)]

\* the API keys of the environment: none, only the key of the provider that
\* is not configured, the key of the configured provider
API_KEYS == {"none", "other", "configured"}

\* PaperProcessor.__init__ finds the key of LLM_PROVIDER
ConfiguredKey(key) == key = "configured"

\* run_processing as one call; llm[n] is the outcome of _call_llm for the
\* n-th paper read. `read` counts the records read from the table and
\* `llm` the calls of the text-generation service.
RunProcessingCall(table, today, key, limit, llm) ==
    IF key = "none"
    THEN [returned |-> FALSE, table |-> table, read |-> 0, llm |-> 0]
    ELSE IF ~ConfiguredKey(key)
    \* PaperProcessor() raises ValueError, caught by `except Exception`
    THEN [returned |-> FALSE, table |-> table, read |-> 0, llm |-> 0]
    ELSE LET found == GetUnprocessedPapers(table, limit)
             done  == [n \in 1..Len(found) |->
                          IF AlreadyProcessed(found[n]) THEN found[n]
                          ELSE TryEnrich(found[n], llm[n], today)]
             calls == Cardinality({n \in 1..Len(found) : ~AlreadyProcessed(found[n])})
         IN  IF found = <<>>
             THEN [returned |-> TRUE, table |-> table, read |-> 0, llm |-> 0]
             ELSE [returned |-> ~SaveRaises(table, done),
                   table |-> SavePapers(table, done),
                   read |-> Len(found), llm |-> calls]

\* send_weekly_digest: EmailDigest() only warns about an incomplete
\* configuration; send_digest generates the digest, then checks the
\* configuration, then connects. `generated` is the digest content (the ids
\* of its papers) or None, `smtp` whether smtplib.SMTP was called.
SendWeeklyDigestCall(table, today, email_config, smtp_ok, days, min_relevance) ==
    LET found == DigestPapers(table, today, days, min_relevance)
        html  == IF found = <<>> THEN None
                 ELSE Some([n \in 1..Len(found) |-> found[n]["id"]])
    IN  IF html = None
        THEN [returned |-> FALSE, read |-> 0, generated |-> None, smtp |-> FALSE]
        ELSE IF ~email_config
        THEN [returned |-> FALSE, read |-> Len(found), generated |-> html,
              smtp |-> FALSE]
        ELSE [returned |-> smtp_ok, read |-> Len(found), generated |-> html,
              smtp |-> TRUE]

\* no call has been observed
NoCall ==
    [op |-> "none", input |-> <<>>, config |-> TRUE, failed |-> FALSE,
     raised |-> FALSE, read |-> 0, llm |-> 0, generated |-> None,
     smtp |-> FALSE, returned |-> <<>>]

\* a job without the `except Exception` branch: the exception leaves the job
RaiseException(value, table) ==
    [raised |-> TRUE, returned |-> value, table |-> table]

\* `except Exception as e` of run_collection, run_processing and
\* send_weekly_digest: an exception of the try block is logged and the
\* function returns `value`; the open transaction of the store is dropped
ExceptException(value, table) ==
    [raised |-> FALSE, returned |-> value, table |-> table]

\* the jobs of the service in the order run_scheduled_tasks registers them
JOBS == <<"run_collection", "run_processing", "send_weekly_digest">>

\* the times of day of the jobs (COLLECTION_SCHEDULE "02:00",
\* PROCESSING_SCHEDULE "03:00", DIGEST_SCHEDULE "08:00") as positions in the day
JobSlot(job) ==
    CASE job = "run_collection" -> 1
      [] job = "run_processing" -> 2
      [] job = "send_weekly_digest" -> 3

\* days between two runs of a job: every().day and every().monday
WEEK == 7
Period(job) == IF job = "send_weekly_digest" THEN WEEK ELSE 1

\* days of send_weekly_digest (default argument)
DIGEST_DAYS == 7

\* no job of the service has ended
NoJob == [op |-> "none", failures |-> {}, raised |-> FALSE, failure_value |-> FALSE]

\* the service is not running
NoService ==
    [running |-> FALSE, current |-> "none", slot |-> 0, next_run |-> <<>>,
     failed |-> {}, job |-> NoJob]

(* ------------------------------ the runs ------------------------------- *)

\* batch sizes the processor is configured with (BATCH_SIZE)
BATCH_SIZES == 1..MaxBatchSize

\* outcomes of _call_llm in the runs against the store: two well-formed
\* responses, a response without JSON, an exception of the client
RUN_OUTCOMES ==
    {LlmText(FULL_JP_9), LlmText(FULL_JCAP_7), LlmText(CLOSE_FIRST), LlmError}

\* values of --limit (None: no limit)
LIMITS == {None, Some(0), Some(1)}

Init ==
    /\ store = <<>>
    /\ now = 0
    /\ pc = "idle"
    /\ papers = <<>>
    /\ batch_size = 1
    /\ i = 0
    /\ k = 0
    /\ processed_batch = <<>>
    /\ processed_papers = <<>>
    /\ delays = 0
    /\ batches = <<>>
    /\ llm_calls = <<>>
    /\ runs = 0
    /\ last_call = NoCall
    /\ service = NoService

procvars == <<pc, papers, batch_size, i, k, processed_batch, processed_papers,
              delays, batches, llm_calls>>

\* a day passes (between runs: a run is short against a day)
Tick ==
    /\ pc = "idle"
    /\ now < MaxNow
    /\ now' = now + 1
    /\ UNCHANGED <<store, procvars, runs>>
    /\ UNCHANGED <<last_call, service>>

\* run_collection: fetch_papers, then save_papers. A collection run that
\* overlaps a processing run commits after the processing run has read and
\* before it saves; the steps of process_papers in between do not touch the
\* store, so the commit is placed right before the save.
RunCollection ==
    /\ pc \in {"idle", "save"}
    /\ runs < MaxRuns
    /\ runs' = runs + 1
    /\ \E index \in IndexOutcomes(now) :
          store' = RunCollectionCall(store, index).table
    /\ UNCHANGED <<now, procvars>>
    /\ UNCHANGED <<last_call, service>>

\* run_processing up to the call of process_papers
StartProcessing ==
    /\ pc = "idle"
    /\ runs < MaxRuns
    /\ runs' = runs + 1
    /\ \E key \in API_KEYS, limit \in LIMITS, size \in {1, 2} :
          IF ~ConfiguredKey(key)
          THEN UNCHANGED <<store, now, procvars>>
          ELSE LET found == GetUnprocessedPapers(store, limit)
               IN  /\ papers' = found
                   /\ batch_size' = size
                   /\ i' = 0
                   /\ k' = 0
                   /\ processed_batch' = <<>>
                   /\ processed_papers' = <<>>
                   /\ delays' = 0
                   /\ batches' = <<>>
                   /\ llm_calls' = <<>>
                   /\ pc' = IF found = <<>> THEN "idle" ELSE "batch_start"
                   /\ UNCHANGED <<store, now>>
    /\ UNCHANGED <<last_call, service>>

\* process_papers: the head of the loop takes the slice papers[i:i+batch_size]
BatchStart ==
    /\ pc = "batch_start"
    /\ papers # <<>>
    /\ batches' = Append(batches, Len(Slice(papers, i, i + batch_size)))
    /\ processed_batch' = <<>>
    /\ k' = 1
    /\ pc' = "in_batch"
    /\ UNCHANGED <<store, now, papers, batch_size, i, processed_papers, delays,
                   llm_calls, runs>>
    /\ UNCHANGED <<last_call, service>>

\* _process_batch: one iteration of the loop over the batch
ProcessPaper(outcomes) ==
    /\ pc = "in_batch"
    /\ k <= Len(Slice(papers, i, i + batch_size))
    /\ LET paper == papers[i + k]
       IN  IF AlreadyProcessed(paper)
           THEN /\ processed_batch' = Append(processed_batch, paper)
                /\ UNCHANGED <<papers, llm_calls>>
           ELSE \E llm \in outcomes :
                   /\ papers' = [papers EXCEPT ![i + k] = TryEnrich(paper, llm, now)]
                   /\ processed_batch' = ProcessOne(processed_batch, paper, llm, now)
                   /\ llm_calls' = Append(llm_calls, [id |-> paper["id"], llm |-> llm])
    /\ k' = k + 1
    /\ UNCHANGED <<store, now, pc, batch_size, i, processed_papers, delays,
                   batches, runs>>
    /\ UNCHANGED <<last_call, service>>

\* process_papers: the batch is returned and appended; the loop sleeps or ends
BatchEnd ==
    /\ pc = "in_batch"
    /\ k > Len(Slice(papers, i, i + batch_size))
    /\ processed_papers' = processed_papers \o processed_batch
    /\ pc' = IF SleepNeeded(i, batch_size, Len(papers)) THEN "sleep" ELSE "save"
    /\ UNCHANGED <<store, now, papers, batch_size, i, k, processed_batch, delays,
                   batches, llm_calls, runs>>
    /\ UNCHANGED <<last_call, service>>

\* time.sleep(PROCESSING_DELAY), then the next iteration
Sleep ==
    /\ pc = "sleep"
    /\ delays' = delays + 1
    /\ i' = i + batch_size
    /\ pc' = "batch_start"
    /\ UNCHANGED <<store, now, papers, batch_size, k, processed_batch,
                   processed_papers, batches, llm_calls, runs>>
    /\ UNCHANGED <<last_call, service>>

\* run_processing after process_papers has returned: save_papers
SaveProcessed ==
    /\ pc = "save"
    /\ store' = SavePapers(store, processed_papers)
    /\ pc' = "idle"
    /\ papers' = <<>>
    /\ batch_size' = 1
    /\ i' = 0
    /\ k' = 0
    /\ processed_batch' = <<>>
    /\ processed_papers' = <<>>
    /\ delays' = 0
    /\ batches' = <<>>
    /\ llm_calls' = <<>>
    /\ UNCHANGED <<now, runs>>
    /\ UNCHANGED <<last_call, service>>

Next ==
    \/ Tick
    \/ RunCollection
    \/ StartProcessing
    \/ BatchStart
    \/ ProcessPaper(RUN_OUTCOMES)
    \/ BatchEnd
    \/ Sleep
    \/ SaveProcessed

Spec == Init /\ [][Next]_vars

(* ------------------- process_papers on a given list -------------------- *)

\* a paper as get_unprocessed_papers returns it, and one that is already processed
RawPaper(id) ==
    [id |-> id, title |-> "v1", published |-> 0, brief_overview |-> None,
     technical_explanation |-> None, attack_categories |-> None,
     relevance_score |-> None, processed |-> 0, processed_at |-> None,
     processing_error |-> None]

DonePaper(id) ==
    [id |-> id, title |-> "v1", published |-> 0,
     brief_overview |-> Some("overview 2"),
     technical_explanation |-> Some("explanation 2"),
     attack_categories |-> Some(<<"Jailbreak">>),
     relevance_score |-> Some(7), processed |-> 1, processed_at |-> Some(0),
     processing_error |-> None]

\* outcomes of _call_llm used on a given list: success, parse failure, API error
BATCH_OUTCOMES ==
    {LlmText(FULL_JP_9), LlmText(INVALID_JSON), LlmError}

InitBatch ==
    /\ store = <<>>
    /\ now = 0
    /\ \E n \in 0..MaxPapers :
          \E done \in SUBSET (1..n) :
             /\ Cardinality(done) <= 1
             /\ papers = [id \in 1..n |->
                            IF id \in done THEN DonePaper(id) ELSE RawPaper(id)]
    /\ batch_size \in BATCH_SIZES
    /\ pc = "batch_start"
    /\ i = 0
    /\ k = 0
    /\ processed_batch = <<>>
    /\ processed_papers = <<>>
    /\ delays = 0
    /\ batches = <<>>
    /\ llm_calls = <<>>
    /\ runs = 0
    /\ last_call = NoCall
    /\ service = NoService

\* process_papers: `if not papers: return []`
NoPapers ==
    /\ pc = "batch_start"
    /\ papers = <<>>
    /\ pc' = "save"
    /\ UNCHANGED <<store, now, papers, batch_size, i, k, processed_batch,
                   processed_papers, delays, batches, llm_calls, runs>>
    /\ UNCHANGED <<last_call, service>>

NextBatch ==
    \/ NoPapers
    \/ BatchStart
    \/ ProcessPaper(BATCH_OUTCOMES)
    \/ BatchEnd
    \/ Sleep
    \/ SaveProcessed

SpecBatch == InitBatch /\ [][NextBatch]_vars

(* ---------------- enrichment of given unprocessed rows ----------------- *)

\* rows with processed = 0 as earlier runs leave them: newly collected,
\* enriched and collected again, failed before
StoredNew(id) ==
    [c \in COLUMNS |->
        CASE c = "id" -> id
          [] c = "title" -> "v1"
          [] c = "published" -> IndexPublished(id)
          [] OTHER -> ColumnDefault(c)]

StoredRecollected(id) ==
    [StoredNew(id) EXCEPT
        !["brief_overview"] = Some("overview 2"),
        !["technical_explanation"] = Some("explanation 2"),
        !["attack_categories"] = Some(JsonDumps(<<"Jailbreak">>)),
        !["relevance_score"] = Some(7)]

StoredFailed(id) ==
    [StoredNew(id) EXCEPT !["processing_error"] = Some("Connection error.")]

StoredRaw(id) == {StoredNew(id), StoredRecollected(id), StoredFailed(id)}

InitEnrich ==
    /\ store \in {<<a>> : a \in StoredRaw(1)}
                \cup {<<a, b>> : a \in StoredRaw(1), b \in StoredRaw(2)}
    /\ now = 2
    /\ papers = GetUnprocessedPapers(store, None)
    /\ batch_size \in BATCH_SIZES
    /\ pc = "batch_start"
    /\ i = 0
    /\ k = 0
    /\ processed_batch = <<>>
    /\ processed_papers = <<>>
    /\ delays = 0
    /\ batches = <<>>
    /\ llm_calls = <<>>
    /\ runs = 1
    /\ last_call = NoCall
    /\ service = NoService

NextEnrich ==
    \/ BatchStart
    \/ ProcessPaper(LLM_OUTCOMES)
    \/ BatchEnd
    \/ Sleep
    \/ SaveProcessed

SpecEnrich == InitEnrich /\ [][NextEnrich]_vars

(* ------------------- the entry points, called on a store --------------- *)

\* rows with processed = 1 as a processing run leaves them
StoredEnriched(id) ==
    [StoredNew(id) EXCEPT
        !["brief_overview"] = Some("overview 1"),
        !["technical_explanation"] = Some("explanation 1"),
        !["attack_categories"] = Some(JsonDumps(<<"jailbreak", "prompt injection">>)),
        !["relevance_score"] = Some(9),
        !["processed"] = 1,
        !["processed_at"] = Some(1)]

StoredLow(id) ==
    [StoredNew(id) EXCEPT
        !["brief_overview"] = Some("overview 2"),
        !["technical_explanation"] = Some("explanation 1"),
        !["attack_categories"] = Some(JsonDumps(<<"prompt injection", "unclassified">>)),
        !["relevance_score"] = Some(3),
        !["processed"] = 1,
        !["processed_at"] = Some(1)]

Stored(id) == StoredRaw(id) \cup {StoredEnriched(id), StoredLow(id)}

\* a record without the NOT NULL column title
MalformedPaper(id) ==
    [id |-> id, published |-> IndexPublished(id), processed |-> 0,
     processed_at |-> None]

\* the lists save_papers is called with
SAVE_BATCHES ==
    LET payloads == UNION {{CollectedPaper(id, "v2"), MalformedPaper(id)} : id \in IDS}
    IN  {<<>>} \cup {<<a>> : a \in payloads}
        \cup {b \in payloads \X payloads : b[1]["id"] # b[2]["id"]}

\* outcomes of _call_llm in the calls of run_processing
CALL_OUTCOMES == {LlmText(FULL_PU_3), LlmError}

\* outcomes of _call_llm in the jobs of the service
JOB_OUTCOMES == {LlmText(FULL_JP_9), LlmError}

\* min_relevance of send_weekly_digest (default argument)
DIGEST_MIN_RELEVANCE == 5

InitCalls ==
    /\ store \in {<<>>} \cup {<<a>> : a \in Stored(1)}
                \cup {<<a, b>> : a \in Stored(1), b \in Stored(2)}
    /\ now = 2
    /\ pc = "idle"
    /\ papers = <<>>
    /\ batch_size = 1
    /\ i = 0
    /\ k = 0
    /\ processed_batch = <<>>
    /\ processed_papers = <<>>
    /\ delays = 0
    /\ batches = <<>>
    /\ llm_calls = <<>>
    /\ runs = 0
    /\ last_call = NoCall
    /\ service = NoService

\* db.save_papers(batch)
CallSavePapers ==
    /\ runs < MaxCalls
    /\ runs' = runs + 1
    /\ \E batch \in SAVE_BATCHES :
          /\ store' = SavePapers(store, batch)
          /\ last_call' = [NoCall EXCEPT !.op = "save_papers", !.input = batch,
                                         !.failed = SaveRaises(store, batch),
                                         !.raised = SaveRaises(store, batch)]
    /\ UNCHANGED <<now, procvars, service>>

\* run_collection()
CallRunCollection ==
    /\ runs < MaxCalls
    /\ runs' = runs + 1
    /\ \E index \in IndexOutcomes(now) :
          LET done == RunCollectionCall(store, index)
          IN  /\ store' = done.table
              /\ last_call' = [NoCall EXCEPT !.op = "run_collection",
                                             !.input = index,
                                             !.failed = index.raised,
                                             !.raised = done.raised,
                                             !.returned = done.returned]
    /\ UNCHANGED <<now, procvars, service>>

\* run_processing(limit)
CallRunProcessing ==
    /\ runs < MaxCalls
    /\ runs' = runs + 1
    /\ \E key \in API_KEYS, limit \in LIMITS :
          \E llm \in [1..(IF ConfiguredKey(key)
                          THEN Len(GetUnprocessedPapers(store, limit)) ELSE 0)
                         -> CALL_OUTCOMES] :
             LET done == RunProcessingCall(store, now, key, limit, llm)
             IN  /\ store' = done.table
                 /\ last_call' = [NoCall EXCEPT !.op = "run_processing",
                                                !.config = ConfiguredKey(key),
                                                !.read = done.read,
                                                !.llm = done.llm,
                                                !.returned = done.returned]
    /\ UNCHANGED <<now, procvars, service>>

\* send_weekly_digest(days)
CallSendWeeklyDigest ==
    /\ runs < MaxCalls
    /\ runs' = runs + 1
    /\ \E email_config \in BOOLEAN, smtp_ok \in BOOLEAN, days \in DAYS :
          LET done == SendWeeklyDigestCall(store, now, email_config, smtp_ok,
                                           days, Some(DIGEST_MIN_RELEVANCE))
          IN  last_call' = [NoCall EXCEPT !.op = "send_weekly_digest",
                                          !.config = email_config,
                                          !.failed = done.smtp /\ ~smtp_ok,
                                          !.read = done.read,
                                          !.generated = done.generated,
                                          !.smtp = done.smtp,
                                          !.returned = done.returned]
    /\ UNCHANGED <<store, now, procvars, service>>

NextCalls ==
    \/ CallSavePapers
    \/ CallRunCollection
    \/ CallRunProcessing
    \/ CallSendWeeklyDigest

SpecCalls == InitCalls /\ [][NextCalls]_vars

(* -------------------- processing runs, one after another --------------- *)

\* values of a positive --limit
POSITIVE_LIMITS == {Some(l) : l \in 1..MaxLimit}

\* run_processing(limit=L) is called again and again on a store that holds
\* unprocessed rows and is not collected into; `last_call` holds the call
\* that is repeated, with its limit as input
InitRepeat ==
    /\ store \in {<<a>> : a \in StoredRaw(1)}
                \cup {<<a, b>> : a \in StoredRaw(1), b \in StoredRaw(2)}
    /\ now = 2
    /\ pc = "idle"
    /\ papers = <<>>
    /\ batch_size = 1
    /\ i = 0
    /\ k = 0
    /\ processed_batch = <<>>
    /\ processed_papers = <<>>
    /\ delays = 0
    /\ batches = <<>>
    /\ llm_calls = <<>>
    /\ runs = 0
    /\ \E limit \in POSITIVE_LIMITS :
          last_call = [NoCall EXCEPT !.op = "run_processing", !.input = limit]
    /\ service = NoService

\* run_processing(limit) up to the call of process_papers, with the API key
\* of the configured provider; `runs` counts the calls up to MaxRuns
RepeatProcessing ==
    /\ pc = "idle"
    /\ runs' = IF runs < MaxRuns THEN runs + 1 ELSE runs
    /\ batch_size' \in {1, 2}
    /\ LET found == GetUnprocessedPapers(store, last_call.input)
       IN  /\ papers' = found
           /\ i' = 0
           /\ k' = 0
           /\ processed_batch' = <<>>
           /\ processed_papers' = <<>>
           /\ delays' = 0
           /\ batches' = <<>>
           /\ llm_calls' = <<>>
           /\ pc' = IF found = <<>> THEN "idle" ELSE "batch_start"
    /\ UNCHANGED <<store, now, last_call, service>>

NextRepeat ==
    \/ RepeatProcessing
    \/ BatchStart
    \/ ProcessPaper(JOB_OUTCOMES)
    \/ BatchEnd
    \/ Sleep
    \/ SaveProcessed

\* every call comes to an end and is followed by the next call
SpecRepeat == InitRepeat /\ [][NextRepeat]_vars /\ WF_vars(NextRepeat)

(* ------------------------- the scheduled service ----------------------- *)

\* the job run_collection() with a paper index that answers `index` and a
\* store whose statements raise sqlite3.Error when db_error holds
\* (PaperDatabase() and save_papers are called after fetch_papers returned)
CollectionJob(table, index, db_error) ==
    IF ~index.raised /\ db_error
    THEN ExceptException(<<>>, table)
    ELSE RunCollectionCall(table, index)

\* the job run_processing(): PaperDatabase() is called once a key is found
ProcessingJob(table, today, key, llm, db_error) ==
    IF key # "none" /\ db_error
    THEN ExceptException(FALSE, table)
    ELSE LET done == RunProcessingCall(table, today, key, None, llm)
         IN  [raised |-> FALSE, returned |-> done.returned, table |-> done.table]

\* the job send_weekly_digest(): generate_digest reads the store first
DigestJob(table, today, email_config, smtp_ok, db_error) ==
    IF db_error
    THEN ExceptException(FALSE, table)
    ELSE LET done == SendWeeklyDigestCall(table, today, email_config, smtp_ok,
                                          DIGEST_DAYS, Some(DIGEST_MIN_RELEVANCE))
         IN  [raised |-> FALSE, returned |-> done.returned, table |-> table]

\* the collaborators that failed while the job used them
CollectionFailures(index, db_error) ==
    IF index.raised THEN {"index"} ELSE IF db_error THEN {"store"} ELSE {}

ProcessingFailures(table, key, llm, db_error) ==
    IF key = "none" THEN {}
    ELSE IF db_error THEN {"store"}
    ELSE IF ~ConfiguredKey(key) THEN {}
    ELSE LET found == GetUnprocessedPapers(table, None)
         IN  IF \E n \in 1..Len(found) : ~AlreadyProcessed(found[n]) /\ llm[n].raised
             THEN {"llm"} ELSE {}

DigestFailures(table, today, email_config, smtp_ok, db_error) ==
    IF db_error THEN {"store"}
    ELSE IF SendWeeklyDigestCall(table, today, email_config, smtp_ok, DIGEST_DAYS,
                                 Some(DIGEST_MIN_RELEVANCE)).smtp /\ ~smtp_ok
    THEN {"smtp"} ELSE {}

\* run_scheduled_tasks up to the loop: the three jobs are registered; the
\* service starts on day 0 before the first time of day, the first Monday
\* is one of the days of the clock (RUN_IMMEDIATE is not set)
InitService ==
    /\ store = <<>>
    /\ now = 0
    /\ pc = "idle"
    /\ papers = <<>>
    /\ batch_size = 1
    /\ i = 0
    /\ k = 0
    /\ processed_batch = <<>>
    /\ processed_papers = <<>>
    /\ delays = 0
    /\ batches = <<>>
    /\ llm_calls = <<>>
    /\ runs = 0
    /\ last_call = NoCall
    /\ \E monday \in 0..MaxNow :
          service = [running |-> TRUE, current |-> "none", slot |-> 0,
                     next_run |-> [j \in {JOBS[n] : n \in 1..Len(JOBS)} |->
                                     IF j = "send_weekly_digest" THEN monday ELSE 0],
                     failed |-> {}, job |-> NoJob]

\* job.should_run: the time of the next run of the job has come
Due(job) ==
    \/ service.next_run[job] < now
    \/ service.next_run[job] = now /\ JobSlot(job) <= service.slot

\* schedule.run_pending() with a job due: the due job with the earliest
\* next run is called
RunPending ==
    /\ service.running
    /\ service.current = "none"
    /\ \E n \in 1..Len(JOBS) :
          /\ Due(JOBS[n])
          /\ \A m \in 1..Len(JOBS) :
                Due(JOBS[m]) => service.next_run[JOBS[n]] <= service.next_run[JOBS[m]]
          /\ service' = [service EXCEPT !.current = JOBS[n]]
    /\ runs' = runs + 1
    /\ UNCHANGED <<store, now, procvars, last_call>>

\* the called job ends and run_pending schedules it again. An exception of
\* the job leaves run_pending and the loop; the `except Exception` of
\* run_scheduled_tasks logs it and the function returns.
\* `job` records the job that ended last: the collaborators that failed in
\* it, whether it raised, and whether it returned its failure value ([] for
\* run_collection, False for run_processing and send_weekly_digest).
JobEnds(job, done, failures) ==
    /\ store' = done.table
    /\ service' = [service EXCEPT
                      !.running = ~done.raised,
                      !.current = "none",
                      !.next_run[job] = IF done.raised THEN @ ELSE now + Period(job),
                      !.failed = @ \cup failures,
                      !.job = [op |-> job, failures |-> failures,
                               raised |-> done.raised,
                               failure_value |->
                                  IF job = "run_collection"
                                  THEN done.returned = <<>>
                                  ELSE done.returned = FALSE]]
    /\ UNCHANGED <<now, procvars, runs, last_call>>

\* the job run_collection
JobCollection ==
    /\ service.current = "run_collection"
    /\ \E index \in IndexOutcomes(now), db_error \in BOOLEAN :
          JobEnds("run_collection", CollectionJob(store, index, db_error),
                  CollectionFailures(index, db_error))

\* the job run_processing
JobProcessing ==
    /\ service.current = "run_processing"
    /\ \E key \in API_KEYS, db_error \in BOOLEAN :
          \E llm \in [1..(IF ConfiguredKey(key)
                          THEN Len(GetUnprocessedPapers(store, None)) ELSE 0)
                         -> JOB_OUTCOMES] :
             JobEnds("run_processing",
                     ProcessingJob(store, now, key, llm, db_error),
                     ProcessingFailures(store, key, llm, db_error))

\* the job send_weekly_digest
JobDigest ==
    /\ service.current = "send_weekly_digest"
    /\ \E email_config \in BOOLEAN, smtp_ok \in BOOLEAN, db_error \in BOOLEAN :
          JobEnds("send_weekly_digest",
                  DigestJob(store, now, email_config, smtp_ok, db_error),
                  DigestFailures(store, now, email_config, smtp_ok, db_error))

\* the iterations of the loop in which no job is due: time.sleep(60) until
\* the next time of day of a job
PollIdle ==
    /\ service.running
    /\ service.current = "none"
    /\ \A n \in 1..Len(JOBS) : ~Due(JOBS[n])
    /\ IF service.slot < Len(JOBS)
       THEN /\ service' = [service EXCEPT !.slot = @ + 1]
            /\ UNCHANGED now
       ELSE /\ now < MaxNow
            /\ now' = now + 1
            /\ service' = [service EXCEPT !.slot = 1]
    /\ UNCHANGED <<store, procvars, runs, last_call>>

NextService ==
    \/ RunPending
    \/ JobCollection
    \/ JobProcessing
    \/ JobDigest
    \/ PollIdle

\* `while True`: the loop takes its next iteration, which calls the job that
\* is due or sleeps; nothing is assumed about a called job coming to an end
SpecService ==
    InitService /\ [][NextService]_vars /\ WF_vars(RunPending) /\ WF_vars(PollIdle)

(* ------------------------------ properties ----------------------------- *)

\* the identifiers of a list of papers
IdsOf(list) == {list[n]["id"] : n \in 1..Len(list)}

\* arguments the reads are called with
DAY_FILTERS == {None} \cup {Some(d) : d \in DAYS}
SCORE_FILTERS == {None} \cup {Some(m) : m \in 0..10}

\* a stored row holds the payload on every column the payload supplies
Reflects(row, payload) ==
    \A c \in DOMAIN payload :
        IF c = "attack_categories" /\ payload[c] # None
        THEN row[c] # None /\ JsonLoads(row[c][1]) = payload[c]
        ELSE row[c] = payload[c]

\* a stored row holds what the collector supplies for its identifier, and
\* on every other column what `before` holds
ReflectsCollected(row, before) ==
    /\ row["title"] \in TITLES
    /\ row["published"] = IndexPublished(row["id"])
    /\ row["processed"] = 0
    /\ row["processed_at"] = None
    /\ \A c \in {"brief_overview", "technical_explanation", "attack_categories",
                 "relevance_score", "processing_error"} : row[c] = before[c]

\* C1: after every save_papers call the store holds at most one row per id;
\* an id that already exists keeps its row (same position) and no row is
\* added for it; the row of an upserted id holds the latest payload on the
\* supplied columns and its previous values on the others.
UpsertKeepsOneRowPerId ==
    [][ /\ \A m, n \in 1..Len(store') :
              store'[m]["id"] = store'[n]["id"] => m = n
        /\ Len(store') >= Len(store)
        /\ \A n \in 1..Len(store) : store'[n]["id"] = store[n]["id"]
        /\ (pc = "save" /\ pc' = "idle") =>
              \A n \in 1..Len(processed_papers) :
                 \E m \in 1..Len(store') :
                    /\ store'[m]["id"] = processed_papers[n]["id"]
                    /\ Reflects(store'[m], processed_papers[n])
        /\ (pc' = pc) =>
              \A m \in 1..Len(store') :
                 \/ m <= Len(store) /\ store'[m] = store[m]
                 \/ ReflectsCollected(store'[m],
                       IF m <= Len(store) THEN store[m]
                       ELSE [c \in COLUMNS |-> ColumnDefault(c)])
      ]_vars

\* C1 witness: a row that was inserted by a collection run and then updated
\* by a processing run and by a second collection run
RowUpsertedThrice ==
    \E n \in 1..Len(store) :
        /\ store[n]["processed"] = 0
        /\ store[n]["brief_overview"] # None
        /\ Len(store) = 1

\* C2 (as claimed): a collection run leaves every Enriched row Enriched, with
\* its enriched_at, overview, explanation, categories and score unchanged.
RecollectionKeepsEnrichment ==
    [][ (pc' = pc) =>
           \A n \in 1..Len(store) :
              store[n]["processed"] = 1 =>
                 \A c \in {"processed", "processed_at", "brief_overview",
                           "technical_explanation", "attack_categories",
                           "relevance_score"} : store'[n][c] = store[n][c]
      ]_vars

\* C3: a row with processed = 0 is returned by neither get_papers_by_category
\* nor get_recent_papers, for every category, window and minimum relevance.
RawExcludedFromFilteredReads ==
    LET raw == {store[n]["id"] : n \in {q \in 1..Len(store) : store[q]["processed"] = 0}}
    IN  /\ \A c \in CATEGORIES, d \in DAY_FILTERS :
              raw \cap IdsOf(GetPapersByCategory(store, now, c, d)) = {}
        /\ \A d \in DAYS, m \in SCORE_FILTERS :
              raw \cap IdsOf(GetRecentPapers(store, now, d, m)) = {}

\* C3 witness: a Raw row inside the window that carries categories and a score
RawRowWithCategoriesAndScore ==
    \E n \in 1..Len(store) :
        /\ store[n]["processed"] = 0
        /\ store[n]["attack_categories"] # None
        /\ Like(store[n]["attack_categories"][1], "jailbreak")
        /\ store[n]["relevance_score"] = Some(9)
        /\ store[n]["published"] >= now - 1

\* the columns enrichment writes, apart from processed and processing_error
ENRICHMENT_FIELDS == {"brief_overview", "technical_explanation",
                      "attack_categories", "relevance_score", "processed_at"}

\* the n-th row of a table that has the given id, if any
RowOf(table, id) == table[CHOOSE n \in 1..Len(table) : table[n]["id"] = id]

\* the step is an iteration of _process_batch that called the service
CallStep == pc = "in_batch" /\ Len(llm_calls') = Len(llm_calls) + 1

\* the step is the save_papers call that ends a processing run
SaveStep == pc = "save" /\ pc' = "idle"

\* responses without a parseable JSON span: no '{', no '}', '}' only before
\* '{', invalid JSON between the braces
UNPARSEABLE == {NO_OPEN, NO_CLOSE, CLOSE_FIRST, INVALID_JSON}

\* C4: a response without a parseable JSON span leaves the record with
\* processed = 0 and a non-empty processing_error, and its overview,
\* explanation, categories, score and processed_at as they were before the
\* call; the row stored by the run shows the same.
UnparseableResponseMarksFailure ==
    [][ /\ CallStep =>
           LET call   == llm_calls'[Len(llm_calls')]
               before == papers[i + k]
               after  == papers'[i + k]
           IN  (~call.llm.raised /\ call.llm.text \in UNPARSEABLE) =>
                  /\ after["processed"] = 0
                  /\ after["processing_error"] # None
                  /\ after["processing_error"][1] # ""
                  /\ \A c \in ENRICHMENT_FIELDS : after[c] = before[c]
                  /\ processed_batch' = Append(processed_batch, after)
        /\ SaveStep =>
           \A n \in 1..Len(llm_calls) :
              LET call == llm_calls[n]
              IN  (~call.llm.raised /\ call.llm.text \in UNPARSEABLE) =>
                     /\ RowOf(store', call.id)["processed"] = 0
                     /\ RowOf(store', call.id)["processing_error"] # None
                     /\ \A c \in ENRICHMENT_FIELDS :
                           RowOf(store', call.id)[c] = RowOf(store, call.id)[c]
      ]_vars

\* C4 witness: a run has stored a row that held enrichment fields and then
\* got a response with invalid JSON
FailedRowKeepsEarlierFields ==
    /\ pc = "idle"
    /\ \E n \in 1..Len(store) :
          /\ store[n]["processed"] = 0
          /\ store[n]["processing_error"] = Some("Expecting value")
          /\ store[n]["relevance_score"] = Some(7)

\* the values the well-formed responses carry
WELL_FORMED == {FULL_JP_9, FULL_JCAP_7, FULL_EMPTY_11, FULL_PU_3}

Returned(text) ==
    CASE text = FULL_JP_9 ->
            [brief_overview |-> "overview 1", technical_explanation |-> "explanation 1",
             categories |-> <<"jailbreak", "prompt injection">>, relevance_score |-> 9]
      [] text = FULL_JCAP_7 ->
            [brief_overview |-> "overview 2", technical_explanation |-> "explanation 2",
             categories |-> <<"Jailbreak">>, relevance_score |-> 7]
      [] text = FULL_PU_3 ->
            [brief_overview |-> "overview 2", technical_explanation |-> "explanation 1",
             categories |-> <<"prompt injection", "unclassified">>, relevance_score |-> 3]
      [] OTHER ->
            [brief_overview |-> "overview 1", technical_explanation |-> "explanation 1",
             categories |-> <<>>, relevance_score |-> 11]

\* C5: a well-formed response with the four keys sets processed = 1 and the
\* returned overview, explanation, categories and score, and a non-null
\* processed_at; the row stored by the run holds these values.
WellFormedResponseEnriches ==
    [][ /\ CallStep =>
           LET call  == llm_calls'[Len(llm_calls')]
               after == papers'[i + k]
           IN  (~call.llm.raised /\ call.llm.text \in WELL_FORMED) =>
                  /\ after["processed"] = 1
                  /\ after["brief_overview"] = Some(Returned(call.llm.text).brief_overview)
                  /\ after["technical_explanation"] =
                        Some(Returned(call.llm.text).technical_explanation)
                  /\ after["attack_categories"] = Some(Returned(call.llm.text).categories)
                  /\ after["relevance_score"] = Some(Returned(call.llm.text).relevance_score)
                  /\ after["processed_at"] # None
        /\ SaveStep =>
           \A n \in 1..Len(llm_calls) :
              LET call == llm_calls[n]
                  row  == RowOf(store', call.id)
              IN  (~call.llm.raised /\ call.llm.text \in WELL_FORMED) =>
                     /\ \E m \in 1..Len(store') : store'[m]["id"] = call.id
                     /\ row["processed"] = 1
                     /\ row["brief_overview"] = Some(Returned(call.llm.text).brief_overview)
                     /\ row["technical_explanation"] =
                           Some(Returned(call.llm.text).technical_explanation)
                     /\ row["attack_categories"] # None
                     /\ JsonLoads(row["attack_categories"][1]) =
                           Some(Returned(call.llm.text).categories)
                     /\ row["relevance_score"] = Some(Returned(call.llm.text).relevance_score)
                     /\ row["processed_at"] # None
      ]_vars

\* C5 witness: the stored row after a response with categories
\* ["jailbreak", "prompt injection"] and score 9
RowEnrichedWithJailbreakNine ==
    /\ pc = "idle"
    /\ \E n \in 1..Len(store) :
          /\ store[n]["processed"] = 1
          /\ store[n]["attack_categories"] =
                Some(JsonDumps(<<"jailbreak", "prompt injection">>))
          /\ store[n]["relevance_score"] = Some(9)
          /\ store[n]["processed_at"] # None

\* C6: a record whose attempt failed is stored with processed = 0; every row
\* with processed = 0, with or without a processing_error, is returned by
\* get_unprocessed_papers without a limit; and a paper that is read with a
\* processing_error is submitted to the service again.
FailedRecordIsRetried ==
    [][ /\ SaveStep =>
           \A n \in 1..Len(llm_calls) :
              LET call == llm_calls[n]
              IN  (call.llm.raised \/ call.llm.text \in UNPARSEABLE) =>
                     /\ \E m \in 1..Len(store') : store'[m]["id"] = call.id
                     /\ RowOf(store', call.id)["processed"] = 0
                     /\ RowOf(store', call.id)["processing_error"] # None
        /\ \A n \in 1..Len(store') :
              store'[n]["processed"] = 0 =>
                 store'[n]["id"] \in IdsOf(GetUnprocessedPapers(store', None))
        /\ (pc = "in_batch" /\ k' = k + 1 /\ papers[i + k]["processed"] = 0) =>
              /\ Len(llm_calls') = Len(llm_calls) + 1
              /\ llm_calls'[Len(llm_calls')].id = papers[i + k]["id"]
      ]_vars

\* C6 witness: a paper that was read with the processing_error of an earlier
\* run has been submitted again
FailedPaperSubmittedAgain ==
    /\ pc = "in_batch"
    /\ \E n \in 1..Len(llm_calls) :
          \E m \in 1..Len(store) :
             /\ store[m]["id"] = llm_calls[n].id
             /\ store[m]["processed"] = 0
             /\ store[m]["processing_error"] # None

\* C7: when process_papers returns, it returns one record per input
\* record, in input order, the same records it was given; every record that
\* is still unprocessed was submitted to the service and carries a
\* processing_error, whatever failed before it.
FailureNeverAbortsBatch ==
    pc = "save" =>
       /\ Len(processed_papers) = Len(papers)
       /\ \A n \in 1..Len(papers) :
             /\ processed_papers[n] = papers[n]
             /\ papers[n]["id"] = n
             /\ papers[n]["processed"] = 0 =>
                   /\ \E c \in 1..Len(llm_calls) : llm_calls[c].id = n
                   /\ papers[n]["processing_error"] # None
       /\ \A c, d \in 1..Len(llm_calls) : c < d => llm_calls[c].id < llm_calls[d].id

\* C7 witness: the first record failed on an API error, the second on a parse
\* error, and the third was enriched
ThirdEnrichedAfterTwoFailures ==
    /\ pc = "save"
    /\ Len(processed_papers) >= 3
    /\ processed_papers[1]["processing_error"] = Some("Connection error.")
    /\ processed_papers[2]["processing_error"] = Some("Expecting value")
    /\ processed_papers[3]["processed"] = 1
    /\ Len(llm_calls) >= 3

\* ceil(n / b)
Ceil(n, b) == (n + b - 1) \div b

\* C8: process_papers on n records with batch size b takes ceil(n/b) batches,
\* each of size b except a last one of n - b * (ceil(n/b) - 1) records, and
\* sleeps once between two consecutive batches and not after the last.
BatchesAndDelays ==
    LET n == Len(papers)
        b == batch_size
    IN  /\ pc \in {"in_batch", "sleep"} => delays = Len(batches) - 1
        /\ pc = "batch_start" => delays = Len(batches)
        /\ pc = "save" =>
              /\ Len(batches) = Ceil(n, b)
              /\ \A j \in 1..Len(batches) :
                    batches[j] = IF j < Len(batches) THEN b ELSE n - b * (Len(batches) - 1)
              /\ \A j \in 1..Len(batches) : batches[j] >= 1 /\ batches[j] <= b
              /\ delays = IF n = 0 THEN 0 ELSE Len(batches) - 1

\* C8 witness: five records with batch size two: groups 2, 2, 1 and two sleeps
FiveRecordsInThreeBatches ==
    /\ pc = "save"
    /\ Len(papers) = 5
    /\ batches = <<2, 2, 1>>
    /\ delays = 2

\* the categories a stored row holds
CategoriesOf(row) ==
    IF row["attack_categories"] = None THEN {}
    ELSE LET list == JsonLoads(row["attack_categories"][1])
         IN  IF list = None THEN {} ELSE {list[1][n] : n \in 1..Len(list[1])}

\* C9: a read with min_relevance = m returns only rows with processed = 1 and
\* relevance_score >= m, and returns the rows of the window whose score is m:
\* for the dashboard with and without a category, and for the digest (which
\* passes MIN_RELEVANCE_SCORE when it is given no minimum).
RelevanceBoundIsInclusive ==
    /\ \A d \in DAYS :
          LET digest == DigestPapers(store, now, d, None)
          IN  \A n \in 1..Len(digest) :
                 /\ digest[n]["processed"] = 1
                 /\ digest[n]["relevance_score"] # None
                 /\ digest[n]["relevance_score"][1] >= MIN_RELEVANCE_SCORE
    /\ \A d \in DAYS, m \in 1..10 :
       LET all    == DashboardPapers(store, now, None, d, m)
           digest == DigestPapers(store, now, d, Some(m))
           \* the rows of the window with processed = 1 and a score of exactly m
           bound  == {n \in 1..Len(store) :
                         /\ store[n]["processed"] = 1
                         /\ store[n]["published"] >= now - d
                         /\ store[n]["relevance_score"] = Some(m)}
           Scored(list) == \A n \in 1..Len(list) :
                              /\ list[n]["processed"] = 1
                              /\ list[n]["relevance_score"] # None
                              /\ list[n]["relevance_score"][1] >= m
       IN  /\ ~all.raised
           /\ Scored(all.papers)
           /\ Scored(digest)
           /\ {store[n]["id"] : n \in bound} \subseteq IdsOf(all.papers) \cap IdsOf(digest)
           /\ \A c \in CATEGORIES :
                 LET one == DashboardPapers(store, now, Some(c), d, m)
                 IN  /\ ~one.raised
                     /\ Scored(one.papers)
                     /\ {store[n]["id"] : n \in {q \in bound : c \in CategoriesOf(store[q])}}
                           \subseteq IdsOf(one.papers)

\* C9 witness: rows scored 9 and 7 in the window, so that m = 9 and m = 7
\* meet the bound and m = 8 separates the two
RowsScoredNineAndSeven ==
    \E a, b \in 1..Len(store) :
        /\ store[a]["processed"] = 1 /\ store[a]["relevance_score"] = Some(9)
        /\ store[b]["processed"] = 1 /\ store[b]["relevance_score"] = Some(7)
        /\ store[a]["published"] >= now - 2
        /\ store[b]["published"] >= now - 2
        /\ IdsOf(GetRecentPapers(store, now, 2, Some(8))) = {store[a]["id"]}

\* C10 (as claimed): without a date filter get_papers_by_category returns a
\* row with processed = 1 exactly when the requested category is an element
\* of the row's attack_categories.
CategoryReadIsMembership ==
    \A c \in CATEGORIES :
       \A n \in 1..Len(store) :
          store[n]["processed"] = 1 =>
             (store[n]["id"] \in IdsOf(GetPapersByCategory(store, now, c, None))
                <=> c \in CategoriesOf(store[n]))

\* C11: get_all_categories returns, without repetition, exactly the strings
\* that occur in the attack_categories of a row with processed = 1; a string
\* that occurs only on rows with processed = 0 is not returned.
AllCategoriesIsUnionOverEnriched ==
    LET found == GetAllCategories(store)
        OnEnriched(c) ==
            \E n \in 1..Len(store) :
               /\ store[n]["processed"] = 1
               /\ store[n]["attack_categories"] # None
               /\ \E t \in 1..Len(store[n]["attack_categories"][1]) :
                     store[n]["attack_categories"][1][t] = <<"str", c>>
    IN  /\ \A m \in 1..Len(found) : found[m] \in CATEGORIES /\ OnEnriched(found[m])
        /\ \A c \in CATEGORIES : OnEnriched(c) => \E m \in 1..Len(found) : found[m] = c
        /\ \A m, n \in 1..Len(found) : found[m] = found[n] => m = n

\* C11 witness: two rows enriched with {jailbreak, prompt injection} and
\* {prompt injection, unclassified}; the read returns the three strings
TwoEnrichedRowsShareACategory ==
    /\ Len(store) = 2
    /\ \A n \in 1..2 : store[n]["processed"] = 1
    /\ {store[n]["attack_categories"] : n \in 1..2} =
          {Some(JsonDumps(<<"jailbreak", "prompt injection">>)),
           Some(JsonDumps(<<"prompt injection", "unclassified">>))}
    /\ GetAllCategories(store) = <<"jailbreak", "prompt injection", "unclassified">>

\* limits get_unprocessed_papers is asked for
LIMIT_ARGUMENTS == {None} \cup {Some(l) : l \in 0..3}

\* C12 (as claimed): get_unprocessed_papers(limit) returns only rows with
\* processed = 0, ordered by published descending; for every integer limit,
\* 0 included, it returns at most limit rows; without a limit it returns
\* every row with processed = 0.
UnprocessedReadIsCapped ==
    \A limit \in LIMIT_ARGUMENTS :
       LET found == GetUnprocessedPapers(store, limit)
       IN  /\ \A n \in 1..Len(found) : found[n]["processed"] = 0
           /\ \A m, n \in 1..Len(found) :
                 m < n => found[m]["published"] >= found[n]["published"]
           /\ limit # None => Len(found) <= limit[1]
           /\ limit = None =>
                 IdsOf(found) = {store[n]["id"] :
                                    n \in {q \in 1..Len(store) : store[q]["processed"] = 0}}

\* C13: get_stats reports as total_papers the number of records and as
\* processed_papers the number of records with processed = 1, which is at
\* most the total; on an empty store it reports 0 for the total, the
\* processed and the recent count.
StatsCountRows ==
    LET stats == GetStats(store, now)
    IN  /\ stats.total_papers = Cardinality(IdsOf(store))
        /\ stats.processed_papers =
              Cardinality({n \in 1..Len(store) : store[n]["processed"] = 1})
        /\ stats.processed_papers <= stats.total_papers
        /\ store = <<>> =>
              /\ stats.total_papers = 0
              /\ stats.processed_papers = 0
              /\ stats.recent_papers = 0
              /\ DOMAIN stats.papers_by_relevance = {}

\* C13 witness: a store of two records, one of them with processed = 1,
\* that calls of the entry points have written
StatsOfTwoRowsOneEnriched ==
    /\ runs > 0
    /\ GetStats(store, now).total_papers = 2
    /\ GetStats(store, now).processed_papers = 1

\* the step is the call `op` of an entry point
CallOf(op) == runs' = runs + 1 /\ last_call'.op = op

\* C14 (as claimed): a save_papers call stores record by record: every
\* record of the batch that comes before the first malformed record is in
\* the store after the call (with the payload that was supplied last for its
\* id), whether or not a later record fails; and every row after the call is
\* a row from before the call or holds a whole payload of the batch.
BatchUpsertIsAtomicPerRecord ==
    [][ CallOf("save_papers") =>
           LET batch  == last_call'.input
               Good(n) == \A m \in 1..n : NOT_NULL \subseteq DOMAIN batch[m]
               before == {n \in 1..Len(batch) : Good(n)}
           IN  /\ \A n \in before :
                     (\A m \in before : m > n => batch[m]["id"] # batch[n]["id"]) =>
                        \E r \in 1..Len(store') :
                           /\ store'[r]["id"] = batch[n]["id"]
                           /\ Reflects(store'[r], batch[n])
               /\ \A r \in 1..Len(store') :
                     \/ \E q \in 1..Len(store) : store'[r] = store[q]
                     \/ \E n \in 1..Len(batch) :
                           /\ store'[r]["id"] = batch[n]["id"]
                           /\ Reflects(store'[r], batch[n])
      ]_vars

\* C15: a run_collection call during which the paper index raises, before
\* or after it has yielded results, returns the empty list, raises nothing
\* and leaves every row of the store as it was, with no row added.
FailedIndexCallChangesNothing ==
    [][ (CallOf("run_collection") /\ last_call'.failed) =>
           /\ last_call'.returned = <<>>
           /\ ~last_call'.raised
           /\ store' = store
      ]_vars

\* C15 witness: the index raised after it had yielded new data for an
\* enriched row and a result that is not in the store
IndexFailedAfterResults ==
    /\ last_call.op = "run_collection"
    /\ last_call.failed
    /\ last_call.input.ids = <<1, 2>>
    /\ Len(store) = 1
    /\ store[1]["id"] = 1
    /\ store[1]["processed"] = 1
    /\ store[1]["title"] # last_call.input.title[1]

\* C16 (as claimed): a record whose _call_llm raised has, after the run, a
\* stored row that is identical to the row stored before the run.
ApiFailureChangesNoRecord ==
    [][ SaveStep =>
           \A n \in 1..Len(llm_calls) :
              llm_calls[n].llm.raised =>
                 RowOf(store', llm_calls[n].id) = RowOf(store, llm_calls[n].id)
      ]_vars

\* C16 (amended): a record whose _call_llm raised has, after the run, a
\* stored row that differs from the row stored before the run in
\* processing_error only, which holds the text of the exception; the row
\* keeps processed = 0.
ApiFailureSetsOnlyProcessingError ==
    [][ /\ CallStep =>
           LET attempt == llm_calls'[Len(llm_calls')]
           IN  attempt.llm.raised =>
                  papers'[i + k] =
                     [papers[i + k] EXCEPT !["processing_error"] = Some(attempt.llm.error)]
        /\ SaveStep =>
           \A n \in 1..Len(llm_calls) :
              llm_calls[n].llm.raised =>
                 /\ RowOf(store', llm_calls[n].id) =
                       [RowOf(store, llm_calls[n].id) EXCEPT
                           !["processing_error"] = Some(llm_calls[n].llm.error)]
                 /\ RowOf(store', llm_calls[n].id)["processed"] = 0
      ]_vars

\* C16 witness: a run has stored a row that held enrichment fields and no
\* processing_error before the service raised for it
ApiFailureStoredOnRecollectedRow ==
    /\ pc = "idle"
    /\ \E n \in 1..Len(store) :
          /\ store[n]["processed"] = 0
          /\ store[n]["processing_error"] = Some("Connection error.")
          /\ store[n]["relevance_score"] = Some(7)

\* responses that are a JSON object without some of the four keys
MISSING_KEYS == {ONLY_OVERVIEW, EMPTY_OBJECT}

\* C17 (as claimed): a response that parses as a JSON object but lacks one
\* or more of the four keys leaves the record with processed = 0 and a
\* processing_error, in the list and in the store.
MissingKeysMarkFailure ==
    [][ /\ CallStep =>
           LET attempt == llm_calls'[Len(llm_calls')]
           IN  (~attempt.llm.raised /\ attempt.llm.text \in MISSING_KEYS) =>
                  /\ papers'[i + k]["processed"] = 0
                  /\ papers'[i + k]["processing_error"] # None
        /\ SaveStep =>
           \A n \in 1..Len(llm_calls) :
              (~llm_calls[n].llm.raised /\ llm_calls[n].llm.text \in MISSING_KEYS) =>
                 /\ RowOf(store', llm_calls[n].id)["processed"] = 0
                 /\ RowOf(store', llm_calls[n].id)["processing_error"] # None
      ]_vars

\* the value a response gives for a key of the response, if it has the key
Given(text, key) ==
    CASE text = ONLY_OVERVIEW /\ key = "brief_overview" -> Some(Some("overview 2"))
      [] OTHER -> None

\* C17 (amended): a response that parses as a JSON object but lacks one or
\* more of the four keys is accepted: the record gets processed = 1 and a
\* processed_at, the values of the keys the response has, and for a missing
\* key "Not provided" (brief_overview, technical_explanation),
\* ["unclassified"] (categories) or 0 (relevance_score); processing_error
\* stays as it was. The row stored by the run holds the same.
MissingKeysAreDefaulted ==
    [][ /\ CallStep =>
           LET attempt == llm_calls'[Len(llm_calls')]
               text    == attempt.llm.text
               Value(key, default) ==
                   IF Given(text, key) = None THEN default ELSE Given(text, key)[1]
           IN  (~attempt.llm.raised /\ text \in MISSING_KEYS) =>
                  papers'[i + k] =
                     [papers[i + k] EXCEPT
                         !["processed"] = 1,
                         !["processed_at"] = Some(now),
                         !["brief_overview"] = Value("brief_overview", Some("Not provided")),
                         !["technical_explanation"] =
                             Value("technical_explanation", Some("Not provided")),
                         !["attack_categories"] = Value("categories", Some(<<"unclassified">>)),
                         !["relevance_score"] = Value("relevance_score", Some(0))]
        /\ SaveStep =>
           \A n \in 1..Len(llm_calls) :
              (~llm_calls[n].llm.raised /\ llm_calls[n].llm.text \in MISSING_KEYS) =>
                 LET row == RowOf(store', llm_calls[n].id)
                 IN  /\ row["processed"] = 1
                     /\ row["processed_at"] # None
                     /\ row["technical_explanation"] = Some("Not provided")
                     /\ row["attack_categories"] = Some(JsonDumps(<<"unclassified">>))
                     /\ row["relevance_score"] = Some(0)
                     /\ row["processing_error"] =
                           RowOf(store, llm_calls[n].id)["processing_error"]
      ]_vars

\* C17 witness: the stored row after a response that holds brief_overview only
RowEnrichedFromOverviewOnly ==
    /\ pc = "idle"
    /\ \E n \in 1..Len(store) :
          /\ store[n]["processed"] = 1
          /\ store[n]["brief_overview"] = Some("overview 2")
          /\ store[n]["technical_explanation"] = Some("Not provided")
          /\ store[n]["relevance_score"] = Some(0)

\* the responses that parse, and what they hold for categories and for
\* relevance_score: None for a missing key
PARSEABLE == WELL_FORMED \cup MISSING_KEYS

GivenCategories(text) ==
    IF text \in WELL_FORMED THEN Some(Returned(text).categories) ELSE None

GivenScore(text) ==
    IF text \in WELL_FORMED THEN Some(Returned(text).relevance_score) ELSE None

\* C18 (as claimed): after a response that parses, attack_categories is
\* ["unclassified"] when the response has no categories key or an empty
\* categories list, and relevance_score is 0 when the response has no
\* relevance_score key; no record gets processed = 1 together with an empty
\* attack_categories, in the list or in the store.
EmptyCategoriesAreDefaulted ==
    [][ /\ CallStep =>
           LET attempt == llm_calls'[Len(llm_calls')]
               text    == attempt.llm.text
               after   == papers'[i + k]
           IN  (~attempt.llm.raised /\ text \in PARSEABLE) =>
                  /\ (GivenCategories(text) = None \/ GivenCategories(text) = Some(<<>>))
                        => after["attack_categories"] = Some(<<"unclassified">>)
                  /\ GivenScore(text) = None => after["relevance_score"] = Some(0)
                  /\ after["processed"] = 1
                  /\ after["attack_categories"] # Some(<<>>)
        /\ SaveStep =>
           \A n \in 1..Len(store') :
              store'[n]["processed"] = 1 =>
                 store'[n]["attack_categories"] # Some(JsonDumps(<<>>))
      ]_vars

\* C19 (as claimed): the relevance_score of every stored row is NULL or an
\* integer in 0..10.
ScoreIsNullOrInRange ==
    \A n \in 1..Len(store) :
       \/ store[n]["relevance_score"] = None
       \/ store[n]["relevance_score"][1] \in 0..10

\* C20 (as claimed): a run_processing call without an API key of the
\* configured provider (no key at all, or only the key of the other
\* provider) reads no record, calls the text-generation service for none
\* and returns False;
\* a send_weekly_digest call with an incomplete email configuration reads
\* no record, generates no digest, makes no SMTP connection and returns
\* False.
ConfigFailureShortCircuits ==
    /\ (last_call.op = "run_processing" /\ ~last_call.config) =>
          /\ last_call.read = 0
          /\ last_call.llm = 0
          /\ last_call.returned = FALSE
    /\ (last_call.op = "send_weekly_digest" /\ ~last_call.config) =>
          /\ last_call.read = 0
          /\ last_call.generated = None
          /\ ~last_call.smtp
          /\ last_call.returned = FALSE

\* the step ends a job of the service during which a collaborator failed
FailedJob ==
    service.current # "none" /\ service'.current = "none" /\ service'.job.failures # {}

\* the loop goes on: after a job with a failed collaborator, on a day that
\* is not the last one of the clock, a further job is called
NextJobIsRun ==
    \A n \in 0..(Len(JOBS) * (MaxNow + 1)) :
       (/\ service.running
        /\ service.current = "none"
        /\ service.job.failures # {}
        /\ runs = n
        /\ now < MaxNow) ~> (runs > n)

\* C21 (as claimed): a job of the service during which the paper index, the
\* text-generation service, the store or the SMTP server fails does not
\* raise and returns its failure value ([] for run_collection, False for
\* run_processing and send_weekly_digest); the service keeps running, the
\* job is scheduled again for a later day and the loop runs a further job.
FailedJobReturnsFailure ==
    /\ [][ FailedJob =>
              /\ ~service'.job.raised
              /\ service'.job.failure_value
              /\ service'.running
              /\ service'.next_run[service'.job.op] > now
         ]_vars
    /\ NextJobIsRun

\* C21 (amended): a job of the service during which a collaborator fails
\* does not raise; it returns [] (run_collection) or False (run_processing,
\* send_weekly_digest) when the paper index, the store or the SMTP server
\* failed, and run_processing returns True when only calls of the
\* text-generation service failed; the service keeps running, the job is
\* scheduled again for a later day and the loop runs a further job.
FailedJobLeavesServiceRunning ==
    /\ [][ FailedJob =>
              /\ ~service'.job.raised
              /\ service'.job.failure_value = (service'.job.failures # {"llm"})
              /\ service'.running
              /\ service'.next_run[service'.job.op] > now
         ]_vars
    /\ NextJobIsRun

\* C21 witness: the index, the text-generation service, the store and the
\* SMTP server have each failed in a job, the service is running and the
\* job it ran last met no failure and returned True
JobRunAfterEveryKindOfFailure ==
    /\ service.running
    /\ service.current = "none"
    /\ service.failed = {"index", "llm", "store", "smtp"}
    /\ service.job.op = "run_processing"
    /\ service.job.failures = {}
    /\ ~service.job.failure_value

\* C22: in every state of the store that collection runs and processing
\* runs reach, whatever the index and the text-generation service answer
\* and wherever a collection run falls between the read and the save of a
\* processing run, a row has processed = 1 exactly if its processed_at is
\* not NULL.
ProcessedIffProcessedAt ==
    \A n \in 1..Len(store) :
       store[n]["processed"] = 1 <=> store[n]["processed_at"] # None

\* C22 witness: the store holds an enriched row, and a row that was enriched,
\* collected again and has both columns reset
EnrichedRowAndResetRow ==
    /\ pc = "idle"
    /\ \E m, n \in 1..Len(store) :
          /\ store[m]["processed"] = 1
          /\ store[m]["processed_at"] # None
          /\ store[n]["processed"] = 0
          /\ store[n]["processed_at"] = None
          /\ store[n]["brief_overview"] # None

\* the paper has been submitted to the text-generation service by the
\* current call of run_processing
Submitted(id) == \E n \in 1..Len(llm_calls) : llm_calls[n].id = id

\* C23 (as claimed): when run_processing is called again and again with one
\* positive limit on a store that is not collected into, every row with
\* processed = 0 is submitted to the text-generation service in the end,
\* whatever the service answers for the other rows.
EveryRawRecordIsSubmitted ==
    \A id \in IDS :
       (\E n \in 1..Len(store) : store[n]["id"] = id /\ store[n]["processed"] = 0)
          ~> Submitted(id)

\* the columns the collector supplies from the paper index
DESCRIPTIVE_FIELDS == {"title", "published"}

\* C24 (as claimed): the save of a processing run leaves the descriptive
\* columns of every row it writes as they are in the store at that time;
\* what a collection run has committed between the read and the save of
\* the processing run is kept.
WriteBackKeepsCollectedFields ==
    [][ SaveStep =>
           \A n \in 1..Len(processed_papers) :
              \A c \in DESCRIPTIVE_FIELDS :
                 RowOf(store', processed_papers[n]["id"])[c] =
                    RowOf(store, processed_papers[n]["id"])[c]
      ]_vars

====
